---- MODULE Spec2Model ----
(***************************************************************************)
(* graphql-codegen-hasura-schemas: the plugin that derives, per model, the *)
(* flattened field collections of the model type and of its insert, set    *)
(* and primary-key input types, and the CRUD permission flags.             *)
(*                                                                         *)
(* Two variants of the plugin are modelled side by side:                   *)
(*   "list"  src/src/index.ts      (field lists, primaryKeys, get flag)    *)
(*   "map"   src/unnamed/part_000  (field maps, disableAggregateFields)    *)
(*                                                                         *)
(* Strings the code inspects character by character (model names, type     *)
(* names, field names, disableFields terms) are sequences of one-character *)
(* strings.  An optional value (undefined / null in the code) is a set     *)
(* with at most one element: None is absent, Some(x) is present.           *)
(***************************************************************************)
EXTENDS Integers, Sequences, FiniteSets, TLC

VARIABLES variant, config, schema, modelType, gqlField, pc, result

vars == <<variant, config, schema, modelType, gqlField, pc, result>>

None == {}

Some(x) == {x}

IsSome(o) == o # {}

Get(o) == CHOOSE x \in o : TRUE

(***************************************************************************)
(* Characters and the two case conversions imported from radash.           *)
(***************************************************************************)
LowerChars == <<"a","b","c","d","e","f","g","h","i","j","k","l","m",
                "n","o","p","q","r","s","t","u","v","w","x","y","z">>

UpperChars == <<"A","B","C","D","E","F","G","H","I","J","K","L","M",
                "N","O","P","Q","R","S","T","U","V","W","X","Y","Z">>

UpperSet == {UpperChars[k] : k \in DOMAIN UpperChars}

LowerSet == {LowerChars[k] : k \in DOMAIN LowerChars}

UpperOf == [c \in LowerSet |-> UpperChars[CHOOSE k \in DOMAIN LowerChars : LowerChars[k] = c]]

LowerOf == [c \in UpperSet |-> LowerChars[CHOOSE k \in DOMAIN UpperChars : UpperChars[k] = c]]

IsUpper(c) == c \in UpperSet

IsLower(c) == c \in LowerSet

toUpperCase(c) == IF IsLower(c) THEN UpperOf[c] ELSE c

toLowerCase(c) == IF IsUpper(c) THEN LowerOf[c] ELSE c

LowerWord(w) == [k \in DOMAIN w |-> toLowerCase(w[k])]

\* the separators of the split pattern /(?=[A-Z])|[\.\-\s_]/
IsSeparator(c) == c \in {"_", ".", "-", " "}

\* str.replace(/([A-Z])+/g, capitalize): of every run of capitals only the
\* first stays a capital
capitalizeRuns(str) ==
  [k \in DOMAIN str |->
     IF k > 1 /\ IsUpper(str[k]) /\ IsUpper(str[k - 1])
     THEN toLowerCase(str[k]) ELSE str[k]]

\* String.prototype.split with that pattern: p is where the current piece
\* starts, q the position the pattern is tried at.  The empty match in front
\* of a capital does not split at the start of a piece.
RECURSIVE splitFrom(_, _, _)
splitFrom(str, p, q) ==
  IF q > Len(str) THEN <<SubSeq(str, p, Len(str))>>
  ELSE IF IsUpper(str[q]) /\ q > p
       THEN <<SubSeq(str, p, q - 1)>> \o splitFrom(str, q, q + 1)
  ELSE IF IsSeparator(str[q])
       THEN <<SubSeq(str, p, q - 1)>> \o splitFrom(str, q + 1, q + 1)
  ELSE splitFrom(str, p, q + 1)

parts(str) ==
  LET pieces == splitFrom(capitalizeRuns(str), 1, 1)
  IN  [k \in DOMAIN pieces |-> LowerWord(pieces[k])]

RECURSIVE joinSnake(_)
joinSnake(ws) ==
  IF Len(ws) = 1 THEN ws[1]
  ELSE joinSnake(SubSeq(ws, 1, Len(ws) - 1)) \o <<"_">> \o ws[Len(ws)]

upperFirst(w) == IF w = <<>> THEN w ELSE <<toUpperCase(w[1])>> \o Tail(w)

RECURSIVE joinCamel(_)
joinCamel(ws) ==
  IF Len(ws) = 1 THEN ws[1]
  ELSE joinCamel(SubSeq(ws, 1, Len(ws) - 1)) \o upperFirst(ws[Len(ws)])

snake(str) == IF str = <<>> THEN <<>> ELSE joinSnake(parts(str))

camel(str) == IF str = <<>> THEN <<>> ELSE joinCamel(parts(str))

\* key.includes(term)
includes(key, term) ==
  \E k \in 0..(Len(key) - Len(term)) : SubSeq(key, k + 1, k + Len(term)) = term

(***************************************************************************)
(* String literals of the code.                                            *)
(***************************************************************************)
InsertInputSuffix == <<"_","i","n","s","e","r","t","_","i","n","p","u","t">>

SetInputSuffix == <<"_","s","e","t","_","i","n","p","u","t">>

PkColumnsSuffix ==
  <<"_","p","k","_","c","o","l","u","m","n","s","_","i","n","p","u","t">>

DeletePrefix == <<"d","e","l","e","t","e","_">>

AggregateTerm == <<"_","a","g","g","r","e","g","a","t","e">>

DefaultPrimaryKeyNames == {<<"i","d">>}

MaxDepthError == "maxDepth must be larger than 0"

(***************************************************************************)
(* GraphQL types.  A field type is its chain of wrappers, outermost first, *)
(* around a named type: [T!]! is <<"NonNull","List","NonNull">> around T.  *)
(***************************************************************************)
isNonNullType(gqlType) == gqlType.wraps # <<>> /\ Head(gqlType.wraps) = "NonNull"

isListType(gqlType) == gqlType.wraps # <<>> /\ Head(gqlType.wraps) = "List"

\* isObjectType / isInputObjectType of a field type
isObjectLeaf(gqlType) == gqlType.wraps = <<>> /\ gqlType.kind = "Object"

isInputObjectLeaf(gqlType) == gqlType.wraps = <<>> /\ gqlType.kind = "InputObject"

ofType(gqlType) == [gqlType EXCEPT !.wraps = Tail(gqlType.wraps)]

\* isObjectType / isInputObjectType of the result of schema.getType(name)
isObjectType(t) == IsSome(t) /\ Get(t).kind = "Object"

isInputObjectType(t) == IsSome(t) /\ Get(t).kind = "InputObject"

getType(sch, name) ==
  IF name \in DOMAIN sch.types THEN Some(sch.types[name]) ELSE None

\* faulty variation: a list wrapper starts the nullable flag afresh
RECURSIVE getInnerSchemaTypeListResets(_, _)
getInnerSchemaTypeListResets(gqlType, fieldSchema) ==
  IF isNonNullType(gqlType)
  THEN getInnerSchemaTypeListResets(ofType(gqlType),
                                    [fieldSchema EXCEPT !.nullable = FALSE])
  ELSE IF isObjectLeaf(gqlType) \/ isInputObjectLeaf(gqlType)
  THEN None
  ELSE IF isListType(gqlType)
  THEN getInnerSchemaTypeListResets(ofType(gqlType),
                                    [fieldSchema EXCEPT !.array = TRUE, !.nullable = TRUE])
  ELSE Some([fieldSchema EXCEPT !.type = Some(gqlType.name)])

\* faulty variation: only object types are dropped, input-object types are not
RECURSIVE getInnerSchemaTypeObjectOnly(_, _)
getInnerSchemaTypeObjectOnly(gqlType, fieldSchema) ==
  IF isNonNullType(gqlType)
  THEN getInnerSchemaTypeObjectOnly(ofType(gqlType),
                                    [fieldSchema EXCEPT !.nullable = FALSE])
  ELSE IF isObjectLeaf(gqlType)
  THEN None
  ELSE IF isListType(gqlType)
  THEN getInnerSchemaTypeObjectOnly(ofType(gqlType), [fieldSchema EXCEPT !.array = TRUE])
  ELSE Some([fieldSchema EXCEPT !.type = Some(gqlType.name)])

RECURSIVE getInnerSchemaType(_, _)
getInnerSchemaType(gqlType, fieldSchema) ==
  IF isNonNullType(gqlType)
  THEN getInnerSchemaType(ofType(gqlType), [fieldSchema EXCEPT !.nullable = FALSE])
  ELSE IF isObjectLeaf(gqlType) \/ isInputObjectLeaf(gqlType)
  THEN None
  ELSE IF isListType(gqlType)
  THEN getInnerSchemaType(ofType(gqlType), [fieldSchema EXCEPT !.array = TRUE])
  ELSE Some([fieldSchema EXCEPT !.type = Some(gqlType.name)])

(***************************************************************************)
(* List variant (src/src/index.ts).                                        *)
(***************************************************************************)
\* faulty variation: a field is disabled only when its name is a disableFields entry
isDisabledExact(key, options) ==
  IsSome(options.disableFields) /\ key \in Get(options.disableFields)

\* options.disableFields?.some((disabledTerm) => key.includes(disabledTerm))
isDisabled(key, options) ==
  /\ IsSome(options.disableFields)
  /\ \E disabledTerm \in Get(options.disableFields) : includes(key, disabledTerm)

newFieldSchema(key) == [name |-> key, type |-> None, array |-> FALSE, nullable |-> TRUE]

\* the reduce over Object.keys(fieldMap), in declaration order
RECURSIVE reduceFields(_, _, _)
reduceFields(fields, options, acc) ==
  IF fields = <<>> THEN acc
  ELSE LET key == Head(fields).name
           inner == getInnerSchemaType(Head(fields).type, newFieldSchema(key))
       IN  IF isDisabled(key, options) THEN reduceFields(Tail(fields), options, acc)
           ELSE IF ~IsSome(inner) THEN reduceFields(Tail(fields), options, acc)
           ELSE reduceFields(Tail(fields), options, Append(acc, Get(inner)))

buildModelSchema(type, options) == reduceFields(type.fields, options, <<>>)

(***************************************************************************)
(* Map variant (src/unnamed/part_000).                                     *)
(***************************************************************************)
\* (options.disableAggregateFields && key.includes("_aggregate")) ||
\* options.disableFields?.includes(key)
isDisabledMap(key, options) ==
  \/ options.disableAggregateFields /\ includes(key, AggregateTerm)
  \/ IsSome(options.disableFields) /\ key \in Get(options.disableFields)

newFieldSchemaMap == [type |-> None, array |-> FALSE, nullable |-> TRUE]

\* {...acc, [key]: schema}
putKey(acc, key, value) ==
  [k \in DOMAIN acc \cup {key} |-> IF k = key THEN value ELSE acc[k]]

EmptyMap == [k \in {} |-> k]

RECURSIVE reduceFieldsMap(_, _, _)
reduceFieldsMap(fields, options, acc) ==
  IF fields = <<>> THEN acc
  ELSE LET key == Head(fields).name
           inner == getInnerSchemaType(Head(fields).type, newFieldSchemaMap)
       IN  IF isDisabledMap(key, options) THEN reduceFieldsMap(Tail(fields), options, acc)
           ELSE IF ~IsSome(inner) THEN reduceFieldsMap(Tail(fields), options, acc)
           ELSE reduceFieldsMap(Tail(fields), options, putKey(acc, key, Get(inner)))

buildModelSchemaMap(type, options) == reduceFieldsMap(type.fields, options, EmptyMap)

(***************************************************************************)
(* The validate hook (the same code in both variants).                     *)
(***************************************************************************)
\* _config.maxDepth && _config.maxDepth <= 0: undefined and 0 are falsy
maxDepthRejected(cfg) ==
  /\ IsSome(cfg.maxDepth)
  /\ Get(cfg.maxDepth) # 0
  /\ Get(cfg.maxDepth) <= 0

Ok(value) == [status |-> "ok", value |-> value, error |-> "", model |-> <<>>]

Error(message, modelName) ==
  [status |-> "error", value |-> EmptyMap, error |-> message, model |-> modelName]

validate(cfg) ==
  IF maxDepthRejected(cfg) THEN Error(MaxDepthError, <<>>) ELSE Ok(EmptyMap)

(***************************************************************************)
(* buildModelSchemas: the names tried for one model, and the resolution of *)
(* its types and of its delete mutation (the same code in both variants,   *)
(* the primary-key input being resolved by the list variant only).         *)
(***************************************************************************)
fieldName(modelName) == snake(modelName)

fieldInsertInputName(modelName) == snake(fieldName(modelName) \o InsertInputSuffix)

fieldSetInputName(modelName) == snake(fieldName(modelName) \o SetInputSuffix)

deleteFieldName(modelName) == DeletePrefix \o fieldName(modelName)

fieldPkColumnsName(modelName) == snake(fieldName(modelName) \o PkColumnsSuffix)

fieldNameCamelCase(modelName) == camel(modelName)

fieldInsertInputNameCamelCase(modelName) == camel(fieldInsertInputName(modelName))

fieldSetInputNameCamelCase(modelName) == camel(fieldSetInputName(modelName))

deleteFieldNameCamelCase(modelName) == camel(deleteFieldName(modelName))

fieldPkColumnsNameCamelCase(modelName) == camel(fieldPkColumnsName(modelName))

\* faulty variation: the camelCase name is tried first
modelTypeOfCamelFirst(sch, modelName) ==
  IF isObjectType(getType(sch, fieldNameCamelCase(modelName)))
  THEN getType(sch, fieldNameCamelCase(modelName))
  ELSE getType(sch, fieldName(modelName))

modelTypeOf(sch, modelName) ==
  IF isObjectType(getType(sch, fieldName(modelName)))
  THEN getType(sch, fieldName(modelName))
  ELSE getType(sch, fieldNameCamelCase(modelName))

insertInputTypeOf(sch, modelName) ==
  IF isInputObjectType(getType(sch, fieldInsertInputName(modelName)))
  THEN getType(sch, fieldInsertInputName(modelName))
  ELSE getType(sch, fieldInsertInputNameCamelCase(modelName))

setInputTypeOf(sch, modelName) ==
  IF isInputObjectType(getType(sch, fieldSetInputName(modelName)))
  THEN getType(sch, fieldSetInputName(modelName))
  ELSE getType(sch, fieldSetInputNameCamelCase(modelName))

pkInputTypeOf(sch, modelName) ==
  IF isInputObjectType(getType(sch, fieldPkColumnsName(modelName)))
  THEN getType(sch, fieldPkColumnsName(modelName))
  ELSE getType(sch, fieldPkColumnsNameCamelCase(modelName))

\* faulty variation: only the snake_case mutation field is looked up
canDeleteSnakeOnly(mutationFields, modelName) ==
  deleteFieldName(modelName) \in mutationFields

\* Boolean(mutationFields[deleteFieldName] ?? mutationFields[deleteFieldNameCamelCase])
canDelete(mutationFields, modelName) ==
  \/ deleteFieldName(modelName) \in mutationFields
  \/ deleteFieldNameCamelCase(modelName) \in mutationFields

TypeErrorMessage == "TypeError: Cannot read properties of undefined"

ModelErrorMessage == "model doesn't exist, or maybe the role doesn't have any permission"

(***************************************************************************)
(* List variant: the record of one model, the error check, the reduce.     *)
(***************************************************************************)
modelSchemasOf(sch, modelName, options) ==
  IF isObjectType(modelTypeOf(sch, modelName))
  THEN buildModelSchema(Get(modelTypeOf(sch, modelName)), options)
  ELSE <<>>

insertInputOf(sch, modelName, options) ==
  IF isInputObjectType(insertInputTypeOf(sch, modelName))
  THEN buildModelSchema(Get(insertInputTypeOf(sch, modelName)), options)
  ELSE <<>>

setInputOf(sch, modelName, options) ==
  IF isInputObjectType(setInputTypeOf(sch, modelName))
  THEN buildModelSchema(Get(setInputTypeOf(sch, modelName)), options)
  ELSE <<>>

\* modelSchemas.filter((m) => options.primaryKeyNames.includes(m.name))
filterPrimaryKeys(modelSchemas, primaryKeyNames) ==
  SelectSeq(modelSchemas, LAMBDA m : m.name \in primaryKeyNames)

\* faulty variation: an empty flattening of the primary-key input falls back as well
primaryKeysOfFallbackOnEmpty(sch, modelName, options) ==
  IF /\ isInputObjectType(pkInputTypeOf(sch, modelName))
     /\ buildModelSchema(Get(pkInputTypeOf(sch, modelName)), options) # <<>>
  THEN buildModelSchema(Get(pkInputTypeOf(sch, modelName)), options)
  ELSE filterPrimaryKeys(modelSchemasOf(sch, modelName, options), options.primaryKeyNames)

primaryKeysOf(sch, modelName, options) ==
  IF isInputObjectType(pkInputTypeOf(sch, modelName))
  THEN buildModelSchema(Get(pkInputTypeOf(sch, modelName)), options)
  ELSE filterPrimaryKeys(modelSchemasOf(sch, modelName, options), options.primaryKeyNames)

modelResult(sch, modelName, options) ==
  LET modelSchemas == modelSchemasOf(sch, modelName, options)
      insertInput  == insertInputOf(sch, modelName, options)
      setInput     == setInputOf(sch, modelName, options)
  IN  [primaryKeys |-> primaryKeysOf(sch, modelName, options),
       model       |-> modelSchemas,
       insertInput |-> insertInput,
       setInput    |-> setInput,
       permissions |->
         [get    |-> Len(modelSchemas) > 0,
          insert |-> Len(insertInput) > 0,
          update |-> Len(setInput) > 0,
          delete |-> canDelete(Get(sch.mutation), modelName)]]

\* !x for an array x: every array, the empty one too, is truthy
notArray(x) == FALSE

\* !result.model && !result.insertInput && !result.setInput
modelMissing(r) == notArray(r.model) /\ notArray(r.insertInput) /\ notArray(r.setInput)

RECURSIVE reduceModels(_, _, _, _)
reduceModels(models, sch, options, acc) ==
  IF models = <<>> THEN Ok(acc)
  ELSE LET modelName == Head(models)
           r == modelResult(sch, modelName, options)
       IN  IF modelMissing(r) THEN Error(ModelErrorMessage, modelName)
           ELSE reduceModels(Tail(models), sch, options, putKey(acc, modelName, r))

\* schema.getMutationType().getFields() throws when the schema has no mutation type
buildModelSchemas(models, sch, options) ==
  IF ~IsSome(sch.mutation) THEN Error(TypeErrorMessage, <<>>)
  ELSE reduceModels(models, sch, options, EmptyMap)

\* { models, disableFields, primaryKeyNames = ["id"] }
plugin(sch, cfg) ==
  buildModelSchemas(cfg.models, sch,
    [disableFields   |-> cfg.disableFields,
     primaryKeyNames |-> IF IsSome(cfg.primaryKeyNames)
                         THEN Get(cfg.primaryKeyNames)
                         ELSE DefaultPrimaryKeyNames])

(***************************************************************************)
(* Map variant: a collection is null when its type does not resolve.       *)
(***************************************************************************)
modelOfMap(sch, modelName, options) ==
  IF isObjectType(modelTypeOf(sch, modelName))
  THEN Some(buildModelSchemaMap(Get(modelTypeOf(sch, modelName)), options))
  ELSE None

insertInputOfMap(sch, modelName, options) ==
  IF isInputObjectType(insertInputTypeOf(sch, modelName))
  THEN Some(buildModelSchemaMap(Get(insertInputTypeOf(sch, modelName)), options))
  ELSE None

setInputOfMap(sch, modelName, options) ==
  IF isInputObjectType(setInputTypeOf(sch, modelName))
  THEN Some(buildModelSchemaMap(Get(setInputTypeOf(sch, modelName)), options))
  ELSE None

\* faulty variation: an empty object counts as false
truthyNonEmpty(x) == IsSome(x) /\ DOMAIN Get(x) # {}

\* Boolean(x) for x an object or null: an object, the empty one too, is truthy
truthy(x) == IsSome(x)

modelResultMap(sch, modelName, options) ==
  LET insertInput == insertInputOfMap(sch, modelName, options)
      setInput    == setInputOfMap(sch, modelName, options)
  IN  [model       |-> modelOfMap(sch, modelName, options),
       insertInput |-> insertInput,
       setInput    |-> setInput,
       permissions |->
         [insert |-> truthy(insertInput),
          update |-> truthy(setInput),
          delete |-> canDelete(Get(sch.mutation), modelName)]]

modelMissingMap(r) == ~truthy(r.model) /\ ~truthy(r.insertInput) /\ ~truthy(r.setInput)

RECURSIVE reduceModelsMap(_, _, _, _)
reduceModelsMap(models, sch, options, acc) ==
  IF models = <<>> THEN Ok(acc)
  ELSE LET modelName == Head(models)
           r == modelResultMap(sch, modelName, options)
       IN  IF modelMissingMap(r) THEN Error(ModelErrorMessage, modelName)
           ELSE reduceModelsMap(Tail(models), sch, options, putKey(acc, modelName, r))

buildModelSchemasMap(models, sch, options) ==
  IF ~IsSome(sch.mutation) THEN Error(TypeErrorMessage, <<>>)
  ELSE reduceModelsMap(models, sch, options, EmptyMap)

\* { tables, disableAggregateFields, disableFields }
pluginMap(sch, cfg) ==
  buildModelSchemasMap(cfg.models, sch,
    [disableAggregateFields |-> cfg.disableAggregateFields,
     disableFields          |-> cfg.disableFields])

(***************************************************************************)
(* Bounds and the inputs drawn within them.                                *)
(***************************************************************************)
MaxModels == 1

MaxTerms == 1

MaxWrap == 3

MaxFields == 2

MaxDepthAbs == 2

Variants == {"list", "map"}

SeqsUpTo(S, n) == UNION {[1..k -> S] : k \in 0..n}

SetsUpTo(S, n) == {T \in SUBSET S : Cardinality(T) <= n}

\* model names: one of two words, and one the schema has no type for
ModelNames == {<<"u","R">>, <<"v">>}

\* the type names a schema may define
TypeNames ==
  {<<"u","_","r">>, <<"u","R">>,
   <<"u","_","r">> \o InsertInputSuffix,
   <<"u","R","I","n","s","e","r","t","I","n","p","u","t">>,
   <<"u","_","r">> \o SetInputSuffix,
   <<"u","R","S","e","t","I","n","p","u","t">>,
   <<"u","_","r">> \o PkColumnsSuffix,
   <<"u","R","P","k","C","o","l","u","m","n","s","I","n","p","u","t">>}

\* the fields a mutation type may have
MutationNames == {DeletePrefix \o <<"u","_","r">>, <<"d","e","l","e","t","e","U","R">>}

FieldNames == {<<"i","d">>, <<"i","d","s">>, <<"n">> \o AggregateTerm}

DisableTerms == {<<"i","d">>, AggregateTerm}

NamedType(kind, name) == [wraps |-> <<>>, kind |-> kind, name |-> name]

Wrapped(wraps, t) == [t EXCEPT !.wraps = wraps]

\* the wrapper chains of at most d wrappers; non-null never wraps non-null
WrapChains(d) ==
  {w \in SeqsUpTo({"NonNull", "List"}, d) :
     \A k \in 1..(Len(w) - 1) : ~(w[k] = "NonNull" /\ w[k + 1] = "NonNull")}

ScalarID == NamedType("Scalar", "ID")

EnumColor == NamedType("Enum", "Color")

ObjectObj == NamedType("Object", "Obj")

InputInp == NamedType("InputObject", "Inp")

NamedTypes == {ScalarID, EnumColor, ObjectObj, InputInp}

\* output types for the fields of an object type, input types for those of an
\* input-object type
LeavesOf(kind) ==
  IF kind = "Object" THEN {ScalarID, EnumColor, ObjectObj}
  ELSE {ScalarID, EnumColor, InputInp}

Field(name, type) == [name |-> name, type |-> type]

\* the type definitions of the schemas of Spec
ObjA ==
  [kind |-> "Object",
   fields |-> <<Field(<<"i","d">>, Wrapped(<<"NonNull">>, ScalarID)),
                Field(<<"n">> \o AggregateTerm,
                      Wrapped(<<"NonNull","List","NonNull">>, EnumColor))>>]

ObjB ==
  [kind |-> "Object",
   fields |-> <<Field(<<"i","d","s">>, Wrapped(<<"List","NonNull">>, ScalarID)),
                Field(<<"i","d">>, Wrapped(<<"NonNull">>, ScalarID)),
                Field(<<"o">>, Wrapped(<<"NonNull">>, ObjectObj))>>]

InpA ==
  [kind |-> "InputObject",
   fields |-> <<Field(<<"i","d">>, ScalarID),
                Field(<<"i","d","s">>, Wrapped(<<"NonNull","List">>, EnumColor))>>]

InpB ==
  [kind |-> "InputObject",
   fields |-> <<Field(<<"n">> \o AggregateTerm, Wrapped(<<"List","NonNull">>, InputInp))>>]

SchemaTypeDefs == {ObjA, ObjB, InpA, InpB}

\* a schema defines at most two of the type names
TypeNameSets == {{}} \cup {{a, b} : a, b \in TypeNames}

Schemas ==
  {[types |-> t, mutation |-> m] :
     t \in UNION {[D -> SchemaTypeDefs] : D \in TypeNameSets},
     m \in {None} \cup {Some(M) : M \in SUBSET MutationNames}}

EmptySchema == [types |-> EmptyMap, mutation |-> None]

Config(models, maxDepth, disableFields, primaryKeyNames, disableAggregateFields) ==
  [models |-> models, maxDepth |-> maxDepth, disableFields |-> disableFields,
   primaryKeyNames |-> primaryKeyNames,
   disableAggregateFields |-> disableAggregateFields]

\* the disableFields and primaryKeyNames of the configurations of Spec
DisableFieldsChoices == {None, Some({<<"i","d">>}), Some({AggregateTerm})}

PrimaryKeyNamesChoices ==
  {None, Some({<<"i","d","s">>}), Some({<<"i","d">>, <<"i","d","s">>})}

\* the options each variant reads; maxDepth is read by validate only
ConfigsOf(v, modelLists, maxDepths, disableChoices) ==
  IF v = "list"
  THEN {Config(ms, d, df, pk, FALSE) :
          ms \in modelLists, d \in maxDepths,
          df \in disableChoices, pk \in PrimaryKeyNamesChoices}
  ELSE {Config(ms, d, df, None, agg) :
          ms \in modelLists, d \in maxDepths,
          df \in disableChoices, agg \in BOOLEAN}

NoConfig == Config(<<>>, None, None, None, FALSE)

NoType == [kind |-> "Scalar", fields |-> <<>>]

NoField == Field(<<>>, ScalarID)

Pending == [status |-> "pending", value |-> EmptyMap, error |-> "", model |-> <<>>]

(***************************************************************************)
(* Spec: one run of the plugin on a schema and a configuration.            *)
(***************************************************************************)
Init ==
  /\ variant \in Variants
  /\ config \in ConfigsOf(variant, SeqsUpTo(ModelNames, MaxModels), {None},
                           DisableFieldsChoices)
  /\ schema \in Schemas
  /\ modelType = NoType
  /\ gqlField = NoField
  /\ pc = "plugin"
  /\ result = Pending

PluginList ==
  /\ pc = "plugin"
  /\ variant = "list"
  /\ result' = plugin(schema, config)
  /\ pc' = "done"
  /\ UNCHANGED <<variant, config, schema, modelType, gqlField>>

PluginMap ==
  /\ pc = "plugin"
  /\ variant = "map"
  /\ result' = pluginMap(schema, config)
  /\ pc' = "done"
  /\ UNCHANGED <<variant, config, schema, modelType, gqlField>>

Next == PluginList \/ PluginMap

Spec == Init /\ [][Next]_vars

(***************************************************************************)
(* SpecValidate: the validate hook on a configuration.                     *)
(***************************************************************************)
MaxDepths == {None} \cup {Some(d) : d \in (0 - MaxDepthAbs)..MaxDepthAbs}

InitValidate ==
  /\ variant \in Variants
  /\ config \in ConfigsOf(variant, {<<m>> : m \in ModelNames}, MaxDepths,
                           DisableFieldsChoices)
  /\ schema = EmptySchema
  /\ modelType = NoType
  /\ gqlField = NoField
  /\ pc = "validate"
  /\ result = Pending

Validate ==
  /\ pc = "validate"
  /\ result' = validate(config)
  /\ pc' = "validated"
  /\ UNCHANGED <<variant, config, schema, modelType, gqlField>>

NextValidate == Validate

SpecValidate == InitValidate /\ [][NextValidate]_vars

(***************************************************************************)
(* SpecUnwrap: getInnerSchemaType on one field, started as buildModelSchema *)
(* starts it.                                                              *)
(***************************************************************************)
FieldTypes == {Wrapped(w, t) : w \in WrapChains(MaxWrap), t \in NamedTypes}

InitUnwrap ==
  /\ variant \in Variants
  /\ config = NoConfig
  /\ schema = EmptySchema
  /\ modelType = NoType
  /\ gqlField \in {Field(n, t) : n \in FieldNames, t \in FieldTypes}
  /\ pc = "unwrap"
  /\ result = Pending

UnwrapList ==
  /\ pc = "unwrap"
  /\ variant = "list"
  /\ result' = Ok(getInnerSchemaType(gqlField.type, newFieldSchema(gqlField.name)))
  /\ pc' = "unwrapped"
  /\ UNCHANGED <<variant, config, schema, modelType, gqlField>>

UnwrapMap ==
  /\ pc = "unwrap"
  /\ variant = "map"
  /\ result' = Ok(getInnerSchemaType(gqlField.type, newFieldSchemaMap))
  /\ pc' = "unwrapped"
  /\ UNCHANGED <<variant, config, schema, modelType, gqlField>>

NextUnwrap == UnwrapList \/ UnwrapMap

SpecUnwrap == InitUnwrap /\ [][NextUnwrap]_vars

(***************************************************************************)
(* SpecFlatten: buildModelSchema on one object or input-object type.       *)
(***************************************************************************)
FlattenWraps ==
  {<<>>, <<"NonNull">>, <<"List","NonNull">>, <<"NonNull","List","NonNull">>}

FieldsOf(kind) ==
  {Field(n, Wrapped(w, t)) : n \in FieldNames, w \in FlattenWraps, t \in LeavesOf(kind)}

\* field names are unique within a type
FieldListsOf(kind) ==
  {fs \in SeqsUpTo(FieldsOf(kind), MaxFields) :
     fs # <<>> /\ \A a, b \in DOMAIN fs : a # b => fs[a].name # fs[b].name}

FlattenTypes ==
  UNION {{[kind |-> kind, fields |-> fs] : fs \in FieldListsOf(kind)} :
           kind \in {"Object", "InputObject"}}

OptionalTerms == {None} \cup {Some(T) : T \in SetsUpTo(DisableTerms, MaxTerms)}

InitFlatten ==
  /\ variant \in Variants
  /\ config \in ConfigsOf(variant, {<<>>}, {None}, OptionalTerms)
  /\ config.primaryKeyNames = None
  /\ schema = EmptySchema
  /\ modelType \in FlattenTypes
  /\ gqlField = NoField
  /\ pc = "flatten"
  /\ result = Pending

FlattenList ==
  /\ pc = "flatten"
  /\ variant = "list"
  /\ result' = Ok(buildModelSchema(modelType,
                    [disableFields |-> config.disableFields,
                     primaryKeyNames |-> DefaultPrimaryKeyNames]))
  /\ pc' = "flattened"
  /\ UNCHANGED <<variant, config, schema, modelType, gqlField>>

FlattenMap ==
  /\ pc = "flatten"
  /\ variant = "map"
  /\ result' = Ok(buildModelSchemaMap(modelType,
                    [disableAggregateFields |-> config.disableAggregateFields,
                     disableFields |-> config.disableFields]))
  /\ pc' = "flattened"
  /\ UNCHANGED <<variant, config, schema, modelType, gqlField>>

NextFlatten == FlattenList \/ FlattenMap

SpecFlatten == InitFlatten /\ [][NextFlatten]_vars

(***************************************************************************)
(* What the claims speak of, stated on the schema and the configuration.   *)
(***************************************************************************)
HasKind(sch, name, kind) == name \in DOMAIN sch.types /\ sch.types[name].kind = kind

\* the type a slot stands for: the snake_case name first, then the camelCase one
SlotType(sch, snakeName, camelName, kind) ==
  IF HasKind(sch, snakeName, kind) THEN Some(sch.types[snakeName])
  ELSE IF HasKind(sch, camelName, kind) THEN Some(sch.types[camelName])
  ELSE None

ModelSlot(sch, m) == SlotType(sch, fieldName(m), fieldNameCamelCase(m), "Object")

InsertSlot(sch, m) ==
  SlotType(sch, fieldInsertInputName(m), fieldInsertInputNameCamelCase(m), "InputObject")

SetSlot(sch, m) ==
  SlotType(sch, fieldSetInputName(m), fieldSetInputNameCamelCase(m), "InputObject")

PkSlot(sch, m) ==
  SlotType(sch, fieldPkColumnsName(m), fieldPkColumnsNameCamelCase(m), "InputObject")

Unresolved(sch, m) ==
  ~IsSome(ModelSlot(sch, m)) /\ ~IsSome(InsertSlot(sch, m)) /\ ~IsSome(SetSlot(sch, m))

Returned == pc = "done" /\ result.status = "ok"

ListOptions ==
  [disableFields   |-> config.disableFields,
   primaryKeyNames |-> IF IsSome(config.primaryKeyNames)
                       THEN Get(config.primaryKeyNames) ELSE {<<"i","d">>}]

MapOptions ==
  [disableAggregateFields |-> config.disableAggregateFields,
   disableFields          |-> config.disableFields]

Elements(seq) == {seq[k] : k \in DOMAIN seq}

HasList(w) == \E k \in DOMAIN w : w[k] = "List"

HasNonNull(w) == \E k \in DOMAIN w : w[k] = "NonNull"

IsLeafValue(t) == t.kind \in {"Scalar", "Enum"}

(***************************************************************************)
(* C1: in both variants, when none of the model type, the insert-input     *)
(* type and the set-input type of a requested model resolves under either  *)
(* name, buildModelSchemas raises the model-resolution error naming that   *)
(* model (the first such model of the list) and returns no record.         *)
(* Stated for the schemas that have a mutation type: without one the run   *)
(* ends in a TypeError before any model is looked at.                      *)
(***************************************************************************)
C1_UnresolvedModelRaises ==
  (pc = "done" /\ IsSome(schema.mutation)) =>
    \A k \in DOMAIN config.models :
      ( /\ Unresolved(schema, config.models[k])
        /\ \A j \in 1..(k - 1) : ~Unresolved(schema, config.models[j]) )
      => /\ result.status = "error"
         /\ result.error = ModelErrorMessage
         /\ result.model = config.models[k]

(***************************************************************************)
(* C2: validate fails with 'maxDepth must be larger than 0' exactly when   *)
(* maxDepth is present and <= 0, maxDepth = 0 included.                    *)
(***************************************************************************)
C2_ValidateRejectsNonPositive ==
  pc = "validated" =>
    ( (result.status = "error" /\ result.error = MaxDepthError)
      <=> (IsSome(config.maxDepth) /\ Get(config.maxDepth) <= 0) )

(***************************************************************************)
(* C3, as claimed: in every returned record of both variants each          *)
(* permission flag is true exactly when its field collection is non-empty. *)
(***************************************************************************)
NonEmptyMap(c) == IsSome(c) /\ DOMAIN Get(c) # {}

C3_FlagIffNonEmpty ==
  Returned =>
    \A m \in DOMAIN result.value :
      LET r == result.value[m]
      IN  IF variant = "list"
          THEN /\ r.permissions.get <=> Len(r.model) > 0
               /\ r.permissions.insert <=> Len(r.insertInput) > 0
               /\ r.permissions.update <=> Len(r.setInput) > 0
          ELSE /\ r.permissions.insert <=> NonEmptyMap(r.insertInput)
               /\ r.permissions.update <=> NonEmptyMap(r.setInput)

(***************************************************************************)
(* C3, amended: in the list variant get, insert and update are true        *)
(* exactly when the model, insertInput and setInput lists are non-empty;   *)
(* in the map variant insert and update are true exactly when the          *)
(* insert-input and set-input types resolve, that is when the collection   *)
(* is present, be it empty or not.                                         *)
(***************************************************************************)
C3_FlagIffNonEmptyOrResolved ==
  Returned =>
    \A m \in DOMAIN result.value :
      LET r == result.value[m]
      IN  IF variant = "list"
          THEN /\ r.permissions.get <=> Len(r.model) > 0
               /\ r.permissions.insert <=> Len(r.insertInput) > 0
               /\ r.permissions.update <=> Len(r.setInput) > 0
          ELSE /\ r.permissions.insert <=> IsSome(InsertSlot(schema, m))
               /\ r.permissions.update <=> IsSome(SetSlot(schema, m))
               /\ IsSome(r.insertInput) <=> IsSome(InsertSlot(schema, m))
               /\ IsSome(r.setInput) <=> IsSome(SetSlot(schema, m))

\* a map-variant record whose insert-input type resolves to an empty collection
C3_Witness ==
  /\ Returned
  /\ variant = "map"
  /\ \E m \in DOMAIN result.value :
       /\ result.value[m].insertInput = Some(EmptyMap)
       /\ result.value[m].permissions.insert

(***************************************************************************)
(* C4: in every returned record permissions.delete is true exactly when    *)
(* the mutation type has a field delete_<snake(m)> or its camelCase        *)
(* equivalent, whether or not any type of m resolved.                      *)
(***************************************************************************)
C4_DeleteIffMutationField ==
  Returned =>
    \A m \in DOMAIN result.value :
      result.value[m].permissions.delete
        <=> \/ DeletePrefix \o snake(m) \in Get(schema.mutation)
            \/ camel(DeletePrefix \o snake(m)) \in Get(schema.mutation)

\* delete is true for a model whose object type did not resolve
C4_Witness ==
  /\ Returned
  /\ \E m \in DOMAIN result.value :
       /\ result.value[m].permissions.delete
       /\ ~IsSome(ModelSlot(schema, m))

(***************************************************************************)
(* C5: for a chain of non-null and list wrappers around a scalar or enum   *)
(* type T, getInnerSchemaType started with nullable = true, array = false  *)
(* returns type = T's name, array = true iff the chain has a list wrapper, *)
(* nullable = false iff the chain has a non-null wrapper at any level.     *)
(***************************************************************************)
C5_UnwrapFlags ==
  (pc = "unwrapped" /\ IsLeafValue(gqlField.type)) =>
    /\ IsSome(result.value)
    /\ Get(result.value).type = Some(gqlField.type.name)
    /\ Get(result.value).array <=> HasList(gqlField.type.wraps)
    /\ Get(result.value).nullable <=> ~HasNonNull(gqlField.type.wraps)

\* [T]! has been unwrapped to array = true, nullable = false
C5_Witness ==
  /\ pc = "unwrapped"
  /\ IsLeafValue(gqlField.type)
  /\ gqlField.type.wraps = <<"NonNull", "List">>
  /\ IsSome(result.value)
  /\ Get(result.value).array
  /\ ~Get(result.value).nullable

(***************************************************************************)
(* C9: the nullable flag reflects only the outermost wrapper of the field  *)
(* type: [T!] gives nullable = true, [T!]! gives nullable = false, both    *)
(* with array = true and type = T.                                         *)
(***************************************************************************)
C9_NullableIsOutermost ==
  (pc = "unwrapped" /\ IsLeafValue(gqlField.type)) =>
    /\ IsSome(result.value)
    /\ Get(result.value).type = Some(gqlField.type.name)
    /\ Get(result.value).nullable <=> ~isNonNullType(gqlField.type)

(***************************************************************************)
(* C6: a field of the type passed to buildModelSchema whose type, under    *)
(* any chain of wrappers, is an object or input-object type never appears  *)
(* in the flattened result, and every descriptor that appears carries the  *)
(* name of a scalar or enum type.                                          *)
(***************************************************************************)
FlattenedNames ==
  IF variant = "list" THEN {d.name : d \in Elements(result.value)}
  ELSE DOMAIN result.value

FlattenedDescriptors ==
  IF variant = "list" THEN Elements(result.value)
  ELSE {result.value[k] : k \in DOMAIN result.value}

C7_PrimaryKeys ==
  (Returned /\ variant = "list") =>
    \A m \in DOMAIN result.value :
      LET r == result.value[m]
          pk == PkSlot(schema, m)
      IN  IF IsSome(pk)
          THEN r.primaryKeys = buildModelSchema(Get(pk), ListOptions)
          ELSE r.primaryKeys =
                 SelectSeq(r.model, LAMBDA d : d.name \in ListOptions.primaryKeyNames)

\* the primary-key input type resolves to an empty flattening while the
\* model list has a field named in primaryKeyNames
C7_Witness ==
  /\ Returned
  /\ variant = "list"
  /\ \E m \in DOMAIN result.value :
       /\ IsSome(PkSlot(schema, m))
       /\ result.value[m].primaryKeys = <<>>
       /\ \E d \in Elements(result.value[m].model) :
            d.name \in ListOptions.primaryKeyNames

(***************************************************************************)
(* C8: no excluded field appears in any flattened collection of a returned *)
(* record: in the list variant no descriptor name contains a disableFields *)
(* entry; in the map variant no key is a disableFields entry and, with     *)
(* disableAggregateFields, no key contains _aggregate.                     *)
(***************************************************************************)
DisabledTerms == IF IsSome(config.disableFields) THEN Get(config.disableFields) ELSE {}

ListNames(r) ==
  {d.name : d \in Elements(r.model) \cup Elements(r.insertInput)
                    \cup Elements(r.setInput) \cup Elements(r.primaryKeys)}

KeysOf(c) == IF IsSome(c) THEN DOMAIN Get(c) ELSE {}

MapNames(r) == KeysOf(r.model) \cup KeysOf(r.insertInput) \cup KeysOf(r.setInput)

C8_ExcludedFieldsAbsent ==
  Returned =>
    \A m \in DOMAIN result.value :
      IF variant = "list"
      THEN \A n \in ListNames(result.value[m]) :
             \A term \in DisabledTerms : ~includes(n, term)
      ELSE \A n \in MapNames(result.value[m]) :
             /\ n \notin DisabledTerms
             /\ config.disableAggregateFields => ~includes(n, AggregateTerm)

\* "id" is disabled, a resolved type declares id and ids, and the record
\* still has a field
C8_Witness ==
  /\ Returned
  /\ variant = "list"
  /\ <<"i","d">> \in DisabledTerms
  /\ \E m \in DOMAIN result.value :
       /\ IsSome(ModelSlot(schema, m))
       /\ \E f \in Elements(Get(ModelSlot(schema, m)).fields) : f.name = <<"i","d">>
       /\ ListNames(result.value[m]) # {}

(***************************************************************************)
(* C10: each of model, insertInput, setInput, pkInput and the delete field *)
(* is resolved on its own: the snake_case name is used whenever it names   *)
(* an entry of the expected kind, the camelCase one existing or not;       *)
(* otherwise the camelCase name iff it names an entry of the expected      *)
(* kind; otherwise the slot is absent.  A type of the wrong kind is never  *)
(* flattened.                                                              *)
(***************************************************************************)
ListOf(slot) == IF IsSome(slot) THEN buildModelSchema(Get(slot), ListOptions) ELSE <<>>

MapOf(slot) ==
  IF IsSome(slot) THEN Some(buildModelSchemaMap(Get(slot), MapOptions)) ELSE None

DeleteSlot(sch, m) ==
  \/ deleteFieldName(m) \in Get(sch.mutation)
  \/ deleteFieldNameCamelCase(m) \in Get(sch.mutation)

C10_SnakeBeforeCamel ==
  Returned =>
    \A m \in DOMAIN result.value :
      LET r == result.value[m]
      IN  /\ r.permissions.delete <=> DeleteSlot(schema, m)
          /\ IF variant = "list"
             THEN /\ r.model = ListOf(ModelSlot(schema, m))
                  /\ r.insertInput = ListOf(InsertSlot(schema, m))
                  /\ r.setInput = ListOf(SetSlot(schema, m))
                  /\ IF IsSome(PkSlot(schema, m))
                     THEN r.primaryKeys = ListOf(PkSlot(schema, m))
                     ELSE Elements(r.primaryKeys) \subseteq Elements(r.model)
             ELSE /\ r.model = MapOf(ModelSlot(schema, m))
                  /\ r.insertInput = MapOf(InsertSlot(schema, m))
                  /\ r.setInput = MapOf(SetSlot(schema, m))

\* both names of the model slot name an object type, with different fields,
\* and the record holds the fields of the snake_case one
C10_Witness ==
  /\ Returned
  /\ variant = "list"
  /\ config.disableFields = None
  /\ \E m \in DOMAIN result.value :
       /\ HasKind(schema, fieldName(m), "Object")
       /\ HasKind(schema, fieldNameCamelCase(m), "Object")
       /\ fieldName(m) # fieldNameCamelCase(m)
       /\ schema.types[fieldName(m)] # schema.types[fieldNameCamelCase(m)]
       /\ result.value[m].model = buildModelSchema(schema.types[fieldName(m)], ListOptions)
       /\ result.value[m].model #
            buildModelSchema(schema.types[fieldNameCamelCase(m)], ListOptions)

====
